---------------------------- MODULE Spec2Model ----------------------------
(***************************************************************************)
(* Model of the solders-macros attribute macros (src/src/lib.rs).          *)
(*                                                                         *)
(* A TokenStream is modelled as a sequence of top-level items.  An item is *)
(* a record tagged by `kind`: "impl" (syn::ItemImpl, with its ordered      *)
(* `items`), "enum" (syn::ItemEnum, with its ordered `variants`), "struct" *)
(* (any other item shape), "from" (a generated `impl From<src> for dst`)   *)
(* and "error" (the compile_error! that parse_macro_input! returns).       *)
(* The first part of the module is the expansion engine, the second part   *)
(* is the behaviour of the generated code once the expanded unit builds.   *)
(***************************************************************************)
EXTENDS Naturals, Sequences, FiniteSets

VARIABLES
    unit,      \* block id -> TokenStream currently standing for that block
    input,     \* block id -> the item as written in the source file
    applied,   \* block id -> sequence of [rule, attr] expanded on it so far
    extern,    \* variant names of the external enum named by ExternName
    phase,     \* "expand" while macros are expanded, "run" once it is built
    call,      \* last call of a synthesized accessor at run time
    trail      \* chain of enum values produced by From conversions

vars == <<unit, input, applied, extern, phase, call, trail>>

---------------------------------------------------------------------------
(* Bounds of the model.                                                    *)

MaxApply == 2      \* attribute expansions per compilation unit

MaxTrail == 3      \* values in a conversion chain (3 = one round trip)

NBlocks == 2       \* annotated blocks in the multi-block unit

---------------------------------------------------------------------------
(* Small input sets.                                                       *)

ExternName == "Foo"

TypeName == "Bar"

VariantNames == {"A", "B", "C"}

\* Methods already written in an impl block, in source order.
InputItemLists ==
    { <<>>, <<"new">>, <<"new", "richcmp">>, <<"richcmp", "new">>,
      <<"new", "new">>, <<"__hash__", "new">> }

\* Variant lists of the annotated enum, in source order.
InputVariantLists ==
    { <<>>, <<"A">>, <<"A", "B">>, <<"B", "A">>, <<"A", "C">>,
      <<"A", "B", "C">> }

\* Attribute argument token streams: no token, one identifier, two tokens.
AttrTokens == { <<>>, <<ExternName>>, <<ExternName, ExternName>> }

CompareOps == {"Lt", "Le", "Eq", "Ne", "Gt", "Ge"}

Objects == {"x", "y"}

IdValues == {7, 42}

---------------------------------------------------------------------------
(* Items.                                                                  *)

Range(s) == { s[i] : i \in DOMAIN s }

\* A method the user wrote; its body is opaque to the macros.
UserItem(n) ==
    [name |-> n, form |-> "user", attrs |-> <<>>, params |-> <<>>,
     ret |-> "", recv |-> "", callee |-> "", args |-> <<>>]

\* ImplItem::Verbatim(quote!{ #attrs pub fn name(params) -> ret { recv.callee(args) } })
Verbatim(n, attrs, params, ret, recv, callee, args) ==
    [name |-> n, form |-> "call", attrs |-> attrs, params |-> params,
     ret |-> ret, recv |-> recv, callee |-> callee, args |-> args]

Param(n, ty) == [name |-> n, ty |-> ty]

ItemImpl(ident, items) == [kind |-> "impl", ident |-> ident, items |-> items]

ItemEnum(ident, variants) ==
    [kind |-> "enum", ident |-> ident, variants |-> variants]

ItemStruct(ident) == [kind |-> "struct", ident |-> ident]

\* err.to_compile_error(): what parse_macro_input! returns on a parse failure
CompileError(expected) == [kind |-> "error", expected |-> expected]

ImplInputs ==
    { ItemImpl(TypeName, [i \in DOMAIN l |-> UserItem(l[i])]) :
        l \in InputItemLists }

EnumInputs == { ItemEnum(TypeName, l) : l \in InputVariantLists }

Inputs == ImplInputs \cup EnumInputs \cup { ItemStruct(TypeName) }

---------------------------------------------------------------------------
(* Block parser: parse_macro_input!(tokens as T).                          *)

ParseItemImpl(item) ==
    IF Len(item) = 1 /\ item[1].kind = "impl"
    THEN [ok |-> TRUE, ast |-> item[1]]
    ELSE [ok |-> FALSE, err |-> <<CompileError("ItemImpl")>>]

ParseItemEnum(item) ==
    IF Len(item) = 1 /\ item[1].kind = "enum"
    THEN [ok |-> TRUE, ast |-> item[1]]
    ELSE [ok |-> FALSE, err |-> <<CompileError("ItemEnum")>>]

ParseIdent(tokens) ==
    IF Len(tokens) = 1
    THEN [ok |-> TRUE, ast |-> tokens[1]]
    ELSE [ok |-> FALSE, err |-> <<CompileError("Ident")>>]

\* Variant of PushItems that inserts the new items in front of the old ones.
PushItemsFront(item, new) ==
    LET p == ParseItemImpl(item)
    IN  IF ~p.ok THEN p.err
        ELSE <<[p.ast EXCEPT !.items = new \o @]>>

\* Variant of PushItems that skips a new item whose name the block has.
PushItemsDedup(item, new) ==
    LET p == ParseItemImpl(item)
        have == { p.ast.items[i].name : i \in DOMAIN p.ast.items }
    IN  IF ~p.ok THEN p.err
        ELSE <<[p.ast EXCEPT !.items =
                  @ \o SelectSeq(new, LAMBDA it : it.name \notin have)]>>

\* ast.items.push(to_add) / ast.items.extend_from_slice(methods), then
\* TokenStream::from(ast.to_token_stream())
PushItems(item, new) ==
    LET p == ParseItemImpl(item)
    IN  IF ~p.ok THEN p.err
        ELSE <<[p.ast EXCEPT !.items = @ \o new]>>

---------------------------------------------------------------------------
(* Generation rules: the quote! templates of each macro.                   *)

pyhash_to_add ==
    Verbatim("__hash__", <<>>, <<>>, "u64", "self", "pyhash", <<>>)

richcmp_full_to_add ==
    Verbatim("__richcmp__", <<>>,
             <<Param("other", "&Self"), Param("op", "pyo3::basic::CompareOp")>>,
             "bool", "self", "richcmp", <<"other", "op">>)

\* Variant of richcmp_eq_only_to_add whose body passes (op, other).
richcmp_eq_only_to_add_swapped ==
    Verbatim("__richcmp__", <<>>,
             <<Param("other", "&Self"), Param("op", "pyo3::basic::CompareOp")>>,
             "pyo3::prelude::PyResult<bool>", "self", "richcmp",
             <<"op", "other">>)

richcmp_eq_only_to_add ==
    Verbatim("__richcmp__", <<>>,
             <<Param("other", "&Self"), Param("op", "pyo3::basic::CompareOp")>>,
             "pyo3::prelude::PyResult<bool>", "self", "richcmp",
             <<"other", "op">>)

richcmp_signer_to_add ==
    Verbatim("__richcmp__", <<>>,
             <<Param("other", "crate::Signer"),
               Param("op", "pyo3::basic::CompareOp")>>,
             "pyo3::prelude::PyResult<bool>", "self", "richcmp",
             <<"other", "op">>)

\* Variant of methods whose to_json calls pystr.
methods_json_via_str ==
    << Verbatim("__bytes__", <<>>, <<Param("py", "pyo3::prelude::Python<'a>")>>,
                "&'a pyo3::types::PyBytes", "self", "pybytes", <<"py">>),
       Verbatim("__str__", <<>>, <<>>, "String", "self", "pystr", <<>>),
       Verbatim("__repr__", <<>>, <<>>, "String", "self", "pyrepr", <<>>),
       Verbatim("__reduce__", <<>>, <<>>,
                "pyo3::prelude::PyResult<(pyo3::prelude::PyObject, pyo3::prelude::PyObject)>",
                "self", "pyreduce", <<>>),
       Verbatim("to_json", <<"doc">>, <<>>, "String", "self", "pystr", <<>>),
       Verbatim("from_json", <<"doc", "staticmethod">>,
                <<Param("raw", "&str")>>, "PyResult<Self>", "Self",
                "py_from_json", <<"raw">>) >>

methods ==
    << Verbatim("__bytes__", <<>>, <<Param("py", "pyo3::prelude::Python<'a>")>>,
                "&'a pyo3::types::PyBytes", "self", "pybytes", <<"py">>),
       Verbatim("__str__", <<>>, <<>>, "String", "self", "pystr", <<>>),
       Verbatim("__repr__", <<>>, <<>>, "String", "self", "pyrepr", <<>>),
       Verbatim("__reduce__", <<>>, <<>>,
                "pyo3::prelude::PyResult<(pyo3::prelude::PyObject, pyo3::prelude::PyObject)>",
                "self", "pyreduce", <<>>),
       Verbatim("to_json", <<"doc">>, <<>>, "String", "self", "py_to_json",
                <<>>),
       Verbatim("from_json", <<"doc", "staticmethod">>,
                <<Param("raw", "&str")>>, "PyResult<Self>", "Self",
                "py_from_json", <<"raw">>) >>

\* pub fn id(&self) -> u64 { self.base.id }: a field read, not a call
rpc_id_getter_to_add ==
    [name |-> "id", form |-> "field", attrs |-> <<"doc", "getter">>,
     params |-> <<>>, ret |-> "u64", recv |-> "self", callee |-> "base.id",
     args |-> <<>>]

\* Variant of Arms that pairs each pattern with the next variant's name.
ArmsRotated(src, dst, variant_names) ==
    [i \in DOMAIN variant_names |->
        [pat |-> [enum |-> src, variant |-> variant_names[i]],
         res |-> [enum |-> dst,
                  variant |-> variant_names[(i % Len(variant_names)) + 1]]]]

\* #(#src::#variant_names => Self::#variant_names),*
Arms(src, dst, variant_names) ==
    [i \in DOMAIN variant_names |->
        [pat |-> [enum |-> src, variant |-> variant_names[i]],
         res |-> [enum |-> dst, variant |-> variant_names[i]]]]

\* impl From<orig> for enum_name, with the trailing `_ => panic!(..)` arm
from_impl_forward(orig, enum_name, variant_names) ==
    [kind |-> "from", src |-> orig, dst |-> enum_name,
     arms |-> Arms(orig, enum_name, variant_names),
     catchall |-> TRUE, panic |-> "Unrecognized variant: {:?}"]

\* Variant of from_impl_reverse whose arms return the variants in reverse
\* declaration order.
from_impl_reverse_mirrored(orig, enum_name, variant_names) ==
    [kind |-> "from", src |-> enum_name, dst |-> orig,
     arms |-> [i \in DOMAIN variant_names |->
                 [pat |-> [enum |-> enum_name, variant |-> variant_names[i]],
                  res |-> [enum |-> orig,
                           variant |-> variant_names[Len(variant_names) + 1 - i]]]],
     catchall |-> FALSE, panic |-> ""]

\* impl From<enum_name> for orig, with no catch-all arm
from_impl_reverse(orig, enum_name, variant_names) ==
    [kind |-> "from", src |-> enum_name, dst |-> orig,
     arms |-> Arms(enum_name, orig, variant_names),
     catchall |-> FALSE, panic |-> ""]

from_impl(orig, enum_name, variant_names) ==
    << from_impl_forward(orig, enum_name, variant_names),
       from_impl_reverse(orig, enum_name, variant_names) >>

---------------------------------------------------------------------------
(* The macros: (attribute tokens, item tokens) -> output tokens.           *)

pyhash(attr, item) == PushItems(item, <<pyhash_to_add>>)

richcmp_full(attr, item) == PushItems(item, <<richcmp_full_to_add>>)

richcmp_eq_only(attr, item) == PushItems(item, <<richcmp_eq_only_to_add>>)

richcmp_signer(attr, item) == PushItems(item, <<richcmp_signer_to_add>>)

\* Variant of common_methods that leaves out the JSON pair.
common_methods_four(attr, item) == PushItems(item, SubSeq(methods, 1, 4))

common_methods(attr, item) == PushItems(item, methods)

rpc_id_getter(attr, item) == PushItems(item, <<rpc_id_getter_to_add>>)

\* Variant of enum_original_mapping that returns the item together with the
\* diagnostic when the argument is not an identifier.
enum_original_mapping_partial(original, item) ==
    LET new_stream == item
        p == ParseItemEnum(item)
        q == ParseIdent(original)
    IN  IF ~p.ok THEN p.err
        ELSE IF ~q.ok THEN new_stream \o q.err
        ELSE new_stream \o from_impl(q.ast, p.ast.ident, p.ast.variants)

enum_original_mapping(original, item) ==
    LET new_stream == item
        p == ParseItemEnum(item)
        q == ParseIdent(original)
    IN  IF ~p.ok THEN p.err
        ELSE IF ~q.ok THEN q.err
        ELSE new_stream \o from_impl(q.ast, p.ast.ident, p.ast.variants)

---------------------------------------------------------------------------
(* Expansion: the compiler hands the annotated item (the head of the       *)
(* block's stream) to the macro and puts the returned tokens in its place. *)

RECURSIVE SumLen(_, _)
SumLen(f, n) == IF n = 0 THEN 0 ELSE Len(f[n]) + SumLen(f, n - 1)

TotalApplied == SumLen(applied, Len(applied))

\* Variant of Splice in which the returned tokens also replace the annotated
\* item of every other block of the same kind.
SpliceShared(u, b, out) ==
    [c \in DOMAIN u |->
        IF c = b \/ Head(u[c]).kind = Head(u[b]).kind
        THEN out \o Tail(u[c]) ELSE u[c]]

\* The macro's return value replaces the annotated item of block b only.
Splice(u, b, out) == [u EXCEPT ![b] = out \o Tail(@)]

Invoke(b, rule, attr, out) ==
    /\ phase = "expand"
    /\ TotalApplied < MaxApply
    /\ Head(unit[b]).kind \in {"impl", "enum", "struct"}
    /\ unit' = Splice(unit, b, out)
    /\ applied' = [applied EXCEPT ![b] = Append(@, [rule |-> rule, attr |-> attr])]
    /\ UNCHANGED <<input, extern, phase, call, trail>>

Pyhash ==
    \E b \in DOMAIN unit, attr \in AttrTokens :
        Invoke(b, "pyhash", attr, pyhash(attr, <<Head(unit[b])>>))

RichcmpFull ==
    \E b \in DOMAIN unit, attr \in AttrTokens :
        Invoke(b, "richcmp_full", attr, richcmp_full(attr, <<Head(unit[b])>>))

RichcmpEqOnly ==
    \E b \in DOMAIN unit, attr \in AttrTokens :
        Invoke(b, "richcmp_eq_only", attr,
               richcmp_eq_only(attr, <<Head(unit[b])>>))

RichcmpSigner ==
    \E b \in DOMAIN unit, attr \in AttrTokens :
        Invoke(b, "richcmp_signer", attr,
               richcmp_signer(attr, <<Head(unit[b])>>))

CommonMethods ==
    \E b \in DOMAIN unit, attr \in AttrTokens :
        Invoke(b, "common_methods", attr,
               common_methods(attr, <<Head(unit[b])>>))

RpcIdGetter ==
    \E b \in DOMAIN unit, attr \in AttrTokens :
        Invoke(b, "rpc_id_getter", attr, rpc_id_getter(attr, <<Head(unit[b])>>))

EnumOriginalMapping ==
    \E b \in DOMAIN unit, attr \in AttrTokens :
        Invoke(b, "enum_original_mapping", attr,
               enum_original_mapping(attr, <<Head(unit[b])>>))

Expand ==
    \/ Pyhash
    \/ RichcmpFull
    \/ RichcmpEqOnly
    \/ RichcmpSigner
    \/ CommonMethods
    \/ RpcIdGetter
    \/ EnumOriginalMapping

---------------------------------------------------------------------------
(* The downstream compiler: whether the expanded unit builds.              *)

Items(u) == UNION { Range(u[b]) : b \in DOMAIN u }

\* Variant names of the enum called e: the external enum, or an enum item.
Variants(u, ext, e) ==
    IF e = ExternName THEN ext
    ELSE UNION { Range(it.variants) :
                    it \in { x \in Items(u) : x.kind = "enum" /\ x.ident = e } }

NoDuplicateNames(items) ==
    \A i, j \in DOMAIN items : items[i].name = items[j].name => i = j

\* A generated From impl type-checks: every path names a declared variant,
\* a match without catch-all is exhaustive, and `, _ => ..` is not the
\* first arm (the template writes the separator unconditionally).
FromImplBuilds(u, ext, f) ==
    /\ \A i \in DOMAIN f.arms :
          /\ f.arms[i].pat.variant \in Variants(u, ext, f.src)
          /\ f.arms[i].res.variant \in Variants(u, ext, f.dst)
    /\ f.catchall => Len(f.arms) > 0
    /\ ~f.catchall =>
          Variants(u, ext, f.src) \subseteq
              { f.arms[i].pat.variant : i \in DOMAIN f.arms }

Builds(u, ext) ==
    /\ \A it \in Items(u) : it.kind # "error"
    /\ \A it \in Items(u) : it.kind = "impl" => NoDuplicateNames(it.items)
    /\ \A it \in Items(u) : it.kind = "from" => FromImplBuilds(u, ext, it)
    /\ \A b \in DOMAIN u : \A i, j \in DOMAIN u[b] :
          (/\ u[b][i].kind = "from" /\ u[b][j].kind = "from"
           /\ u[b][i].src = u[b][j].src /\ u[b][i].dst = u[b][j].dst) => i = j

Build ==
    /\ phase = "expand"
    /\ Builds(unit, extern)
    /\ phase' = "run"
    /\ UNCHANGED <<unit, input, applied, extern, call, trail>>

---------------------------------------------------------------------------
(* Run time: calling a synthesized accessor.                               *)

NoCall == [accessor |-> ""]

\* Values a caller can pass for a parameter of type ty.
ValuesOf(ty) == IF ty = "pyo3::basic::CompareOp" THEN CompareOps ELSE Objects

ActualsFor(params) ==
    { a \in [DOMAIN params -> CompareOps \cup Objects] :
        \A i \in DOMAIN params : a[i] \in ValuesOf(params[i].ty) }

\* What a delegate declared with return type ret can evaluate to.
Outcomes(ret) ==
    CASE ret = "bool" -> {"true", "false"}
      [] ret = "pyo3::prelude::PyResult<bool>" ->
            {"Ok(true)", "Ok(false)", "Err(e)"}
      [] ret = "u64" -> IdValues
      [] ret \in {"PyResult<Self>",
                  "pyo3::prelude::PyResult<(pyo3::prelude::PyObject, pyo3::prelude::PyObject)>"} ->
            {"Ok(v)", "Err(e)"}
      [] OTHER -> {"v", "w"}

\* The value bound to the parameter called n.
Lookup(params, actuals, n) ==
    actuals[CHOOSE i \in DOMAIN params : params[i].name = n]

\* What the accessor's body reaches for: the delegate's result for a call,
\* the stored value for the field read `self.base.id`.
Worlds(item) == IF item.form = "call" THEN Outcomes(item.ret) ELSE IdValues

\* Evaluate the accessor's body.  `recv.callee(args)` passes the named
\* parameters on; the call (or the field read) is the tail expression of
\* the block, so its value is the accessor's value.
ExecAccessor(b, i, item, actuals, world) ==
    [block |-> b, index |-> i, accessor |-> item.name, ret |-> item.ret,
     form |-> item.form, actuals |-> actuals, recv |-> item.recv,
     callee |-> item.callee,
     passed |-> [k \in DOMAIN item.args |->
                    Lookup(item.params, actuals, item.args[k])],
     delegated |-> world,
     returned |-> IF item.form \in {"call", "field"} THEN world ELSE "()"]

\* One accessor call is observed per run; calls leave the program unchanged.
CallAccessor ==
    /\ phase = "run"
    /\ call = NoCall
    /\ \E b \in DOMAIN unit :
         /\ Head(unit[b]).kind = "impl"
         /\ \E i \in DOMAIN Head(unit[b]).items :
              LET item == Head(unit[b]).items[i]
              IN  /\ item.form # "user"
                  /\ \E actuals \in ActualsFor(item.params),
                        world \in Worlds(item) :
                        call' = ExecAccessor(b, i, item, actuals, world)
    /\ UNCHANGED <<unit, input, applied, extern, phase, trail>>

---------------------------------------------------------------------------
(* Run time: the generated From conversions.                               *)

IsValue(v) == "enum" \in DOMAIN v

\* Variant of Panic whose message leaves the value out.
PanicAnonymous(template, left) == [panic |-> TRUE, msg |-> <<template>>]

\* panic!("Unrecognized variant: {:?}", left)
Panic(template, left) == [panic |-> TRUE, msg |-> <<template, left.variant>>]

\* match left { arms.., [_ => panic!] }: the first arm whose pattern matches
MatchArms(f, left) ==
    LET hits == { i \in DOMAIN f.arms : f.arms[i].pat = left }
    IN  IF hits # {}
        THEN f.arms[CHOOSE i \in hits : \A j \in hits : i <= j].res
        ELSE IF f.catchall THEN Panic(f.panic, left)
        ELSE [unreachable |-> TRUE]

EnumNames(u) == {ExternName} \cup { it.ident : it \in { x \in Items(u) : x.kind = "enum" } }

Construct ==
    /\ phase = "run"
    /\ \E e \in EnumNames(unit) : \E v \in Variants(unit, extern, e) :
          trail' = <<[enum |-> e, variant |-> v]>>
    /\ UNCHANGED <<unit, input, applied, extern, phase, call>>

\* dst::from(left) for the value at the end of the chain
Into ==
    /\ phase = "run"
    /\ trail # <<>>
    /\ Len(trail) < MaxTrail
    /\ IsValue(trail[Len(trail)])
    /\ \E f \in { x \in Items(unit) : x.kind = "from" } :
          /\ f.src = trail[Len(trail)].enum
          /\ trail' = Append(trail, MatchArms(f, trail[Len(trail)]))
    /\ UNCHANGED <<unit, input, applied, extern, phase, call>>

---------------------------------------------------------------------------
(* Specifications.                                                         *)

ExternVariantSets == { {"A"}, {"A", "B"}, {"A", "B", "C"} }

\* One annotated block; an enum block comes with the external enum.
Init ==
    /\ \E i \in Inputs :
          /\ unit = <<<<i>>>>
          /\ input = <<i>>
          /\ extern \in (IF i.kind = "enum" THEN ExternVariantSets ELSE {{}})
    /\ applied = <<<<>>>>
    /\ phase = "expand"
    /\ call = NoCall
    /\ trail = <<>>

Next ==
    \/ Expand
    \/ Build
    \/ CallAccessor
    \/ Construct
    \/ Into

Spec == Init /\ [][Next]_vars

UnitInputs ==
    { ItemImpl(TypeName, <<UserItem("new"), UserItem("richcmp")>>),
      ItemEnum(TypeName, <<"A", "B">>) }

\* A compilation unit of NBlocks annotated blocks, expanded in any order.
InitUnit ==
    /\ input \in [1..NBlocks -> UnitInputs]
    /\ unit = [b \in 1..NBlocks |-> <<input[b]>>]
    /\ applied = [b \in 1..NBlocks |-> <<>>]
    /\ extern = {"A", "B"}
    /\ phase = "expand"
    /\ call = NoCall
    /\ trail = <<>>

SpecUnit == InitUnit /\ [][Expand]_vars

---------------------------------------------------------------------------
(* Vocabulary of the properties.                                           *)

ImplRules ==
    {"pyhash", "richcmp_full", "richcmp_eq_only", "richcmp_signer",
     "common_methods", "rpc_id_getter"}

ComparisonRules == {"richcmp_full", "richcmp_eq_only", "richcmp_signer"}

BundleNames ==
    <<"__bytes__", "__str__", "__repr__", "__reduce__", "to_json", "from_json">>

\* The accessor names each implementation-block rule is documented to add.
ExpectedNames(rule) ==
    CASE rule = "pyhash" -> <<"__hash__">>
      [] rule \in ComparisonRules -> <<"__richcmp__">>
      [] rule = "common_methods" -> BundleNames
      [] rule = "rpc_id_getter" -> <<"id">>
      [] OTHER -> <<>>

Names(items) == [i \in DOMAIN items |-> items[i].name]

Count(seq, x) == Cardinality({ i \in DOMAIN seq : seq[i] = x })

Last(seq) == seq[Len(seq)]

RECURSIVE ExpectedSuffix(_)
ExpectedSuffix(hist) ==
    IF hist = <<>> THEN <<>>
    ELSE ExpectedNames(Head(hist).rule) \o ExpectedSuffix(Tail(hist))

\* Block b is an impl block on which only implementation-block rules ran.
OnlyImplRules(b) ==
    /\ input[b].kind = "impl"
    /\ \A k \in DOMAIN applied[b] : applied[b][k].rule \in ImplRules

\* Block b was just expanded by the step.
Expanded(b) == applied'[b] # applied[b]

\* The tokens the macro returned in the step: what stands in block b's
\* stream in front of the untouched rest.
Returned(b) == SubSeq(unit'[b], 1, Len(unit'[b]) - (Len(unit[b]) - 1))

RestKept(b) ==
    /\ Len(unit'[b]) >= Len(unit[b]) - 1
    /\ SubSeq(unit'[b], Len(unit'[b]) - Len(unit[b]) + 2, Len(unit'[b]))
          = Tail(unit[b])

---------------------------------------------------------------------------
(* C1: every implementation-block rule, applied to an impl block with item *)
(* list I, emits one impl block whose item list is I followed by the       *)
(* rule's generated items: nothing removed, replaced or reordered.         *)
C1_StrictlyAdditive ==
    [][\A b \in DOMAIN unit :
         (/\ Expanded(b)
          /\ Head(unit[b]).kind = "impl"
          /\ Last(applied'[b]).rule \in ImplRules)
         => LET old == Head(unit[b]).items
                out == Returned(b)
                gen == ExpectedNames(Last(applied'[b]).rule)
            IN  /\ RestKept(b)
                /\ Len(out) = 1
                /\ out[1].kind = "impl"
                /\ out[1].ident = Head(unit[b]).ident
                /\ Len(out[1].items) = Len(old) + Len(gen)
                /\ SubSeq(out[1].items, 1, Len(old)) = old
                /\ \A k \in 1..Len(gen) :
                      /\ out[1].items[Len(old) + k].name = gen[k]
                      /\ out[1].items[Len(old) + k].form # "user"]_vars

C1_Witness ==
    \E b \in DOMAIN unit :
        /\ input[b] = ItemImpl(TypeName, <<UserItem("richcmp"), UserItem("new")>>)
        /\ Len(applied[b]) = 2
        /\ applied[b][1].rule = "common_methods"
        /\ applied[b][2].rule = "rpc_id_getter"
        /\ Names(Head(unit[b]).items) =
              <<"richcmp", "new">> \o BundleNames \o <<"id">>

---------------------------------------------------------------------------
(* C10: after any stack of implementation-block rules, the item list is    *)
(* the original items followed by each applied rule's fixed list in        *)
(* application order (1 item per rule, 6 for common_methods); two          *)
(* comparison rules leave two __richcmp__ items, neither rejected nor      *)
(* deduplicated.                                                           *)
C10_StackedRules ==
    \A b \in DOMAIN unit :
        OnlyImplRules(b) =>
            LET items == Head(unit[b]).items
                orig == input[b].items
            IN  /\ Len(unit[b]) = 1
                /\ Head(unit[b]).kind = "impl"
                /\ SubSeq(items, 1, Len(orig)) = orig
                /\ Names(items) = Names(orig) \o ExpectedSuffix(applied[b])
                /\ Len(items) = Len(orig)
                     + 6 * Cardinality({ k \in DOMAIN applied[b] :
                                           applied[b][k].rule = "common_methods" })
                     + Cardinality({ k \in DOMAIN applied[b] :
                                           applied[b][k].rule # "common_methods" })
                /\ Count(Names(items), "__richcmp__") =
                     Count(Names(orig), "__richcmp__")
                     + Cardinality({ k \in DOMAIN applied[b] :
                                       applied[b][k].rule \in ComparisonRules })

C10_Witness ==
    \E b \in DOMAIN unit :
        /\ OnlyImplRules(b)
        /\ Len(applied[b]) = 2
        /\ applied[b][1].rule = "richcmp_full"
        /\ applied[b][2].rule = "richcmp_signer"
        /\ Len(input[b].items) = 1
        /\ Names(Head(unit[b]).items) = <<"new", "__richcmp__", "__richcmp__">>
        /\ Head(unit[b]).items[2] # Head(unit[b]).items[3]

---------------------------------------------------------------------------
(* C8: re-applying a rule to a block it already expanded raises no         *)
(* diagnostic in the engine and leaves the rule's generated items in the   *)
(* block once per application; a name that already exists in the block is  *)
(* never detected.  Likewise a repeated enum_original_mapping emits its two *)
(* conversions once per application.                                       *)
C8_NotIdempotent ==
    /\ \A b \in DOMAIN unit :
          (/\ input[b].kind = "enum"
           /\ \A k \in DOMAIN applied[b] :
                 /\ applied[b][k].rule = "enum_original_mapping"
                 /\ Len(applied[b][k].attr) = 1)
          => /\ \A it \in Range(unit[b]) : it.kind # "error"
             /\ Len(unit[b]) = 1 + 2 * Len(applied[b])
             /\ \A k \in 2..Len(unit[b]) :
                   /\ unit[b][k].kind = "from"
                   /\ unit[b][k] = unit[b][IF k % 2 = 0 THEN 2 ELSE 3]
    /\ \A b \in DOMAIN unit :
        OnlyImplRules(b) =>
            /\ \A it \in Range(unit[b]) : it.kind # "error"
            /\ \A r \in ImplRules : \A n \in Range(ExpectedNames(r)) :
                  Count(Names(Head(unit[b]).items), n) =
                      Count(Names(input[b].items), n)
                      + Cardinality({ k \in DOMAIN applied[b] :
                            n \in Range(ExpectedNames(applied[b][k].rule)) })

C8_Witness ==
    \E b \in DOMAIN unit :
        /\ OnlyImplRules(b)
        /\ Len(applied[b]) = 2
        /\ applied[b][1].rule = "common_methods"
        /\ applied[b][2].rule = "common_methods"
        /\ \A n \in Range(BundleNames) :
              Count(Names(Head(unit[b]).items), n) = 2
        /\ ~NoDuplicateNames(Head(unit[b]).items)

---------------------------------------------------------------------------
(* C5: the __richcmp__ accessor of every comparison rule passes exactly    *)
(* (other, op) to the delegate richcmp, for any of the six operators, and  *)
(* returns exactly what the delegate returns; a delegate failure of the    *)
(* fallible variants comes back unchanged.                                 *)
C5_RichcmpDelegates ==
    /\ call.accessor = "__richcmp__" =>
          /\ call.form = "call"
          /\ call.recv = "self"
          /\ call.callee = "richcmp"
          /\ Len(call.actuals) = 2
          /\ call.passed = call.actuals
          /\ call.returned = call.delegated
          /\ call.ret \in {"bool", "pyo3::prelude::PyResult<bool>"}
          /\ call.ret = "bool" => call.returned \in {"true", "false"}
    /\ \A b \in DOMAIN unit :
          (OnlyImplRules(b) /\ applied[b] # <<>>) =>
              LET it == Last(Head(unit[b]).items)
                  r == Last(applied[b]).rule
              IN  /\ r = "richcmp_full" => it.ret = "bool"
                  /\ r \in {"richcmp_eq_only", "richcmp_signer"} =>
                        it.ret = "pyo3::prelude::PyResult<bool>"
                  /\ r \in ComparisonRules =>
                        /\ it.name = "__richcmp__"
                        /\ [k \in DOMAIN it.params |-> it.params[k].name]
                              = <<"other", "op">>
                        /\ it.params[2].ty = "pyo3::basic::CompareOp"

C5_Witness ==
    /\ phase = "run"
    /\ call.accessor = "__richcmp__"
    /\ applied[call.block] = <<[rule |-> "richcmp_signer", attr |-> <<>>]>>
    /\ call.actuals = <<"y", "Ge">>
    /\ call.passed = <<"y", "Ge">>
    /\ call.delegated = "Err(e)"
    /\ call.returned = "Err(e)"

---------------------------------------------------------------------------
(* C6 as stated: the bundle's accessors delegate to pybytes(ctx), pystr(), *)
(* pyrepr(), pyreduce(), py_to_json(raw) and Self::py_from_json(raw).      *)
C6_AsStated ==
    \A b \in DOMAIN unit :
        (/\ OnlyImplRules(b) /\ applied[b] # <<>>
         /\ Last(applied[b]).rule = "common_methods")
        => LET items == Head(unit[b]).items
               gen == SubSeq(items, Len(items) - 5, Len(items))
           IN  /\ Names(gen) = BundleNames
               /\ [k \in 1..6 |-> gen[k].callee] =
                     <<"pybytes", "pystr", "pyrepr", "pyreduce",
                       "py_to_json", "py_from_json">>
               /\ [k \in 1..6 |-> Len(gen[k].args)] = <<1, 0, 0, 0, 1, 1>>

(* C6 amended: there is one bundle rule, common_methods; every application *)
(* appends exactly the six accessors, the JSON pair always included (no    *)
(* application appends only the four non-JSON ones); each delegates to one *)
(* correspondingly named method -- pybytes(py), pystr(), pyrepr(),         *)
(* pyreduce(), py_to_json() with no argument, Self::py_from_json(raw) --   *)
(* and returns its result untransformed.                                   *)
C6_BundleOfSix ==
    /\ \A b \in DOMAIN unit :
          OnlyImplRules(b) =>
              LET items == Head(unit[b]).items
                  gen(i) == items[i].form # "user"
              IN  /\ \A i \in DOMAIN items :
                        (gen(i) /\ items[i].name = "__bytes__") =>
                            /\ i + 5 <= Len(items)
                            /\ Names(SubSeq(items, i, i + 5)) = BundleNames
                            /\ [k \in 0..5 |-> items[i + k].callee] =
                                  [k \in 0..5 |->
                                      <<"pybytes", "pystr", "pyrepr", "pyreduce",
                                        "py_to_json", "py_from_json">>[k + 1]]
                            /\ [k \in 0..5 |-> items[i + k].args] =
                                  [k \in 0..5 |->
                                      <<<<"py">>, <<>>, <<>>, <<>>, <<>>,
                                        <<"raw">>>>[k + 1]]
                            /\ [k \in 0..5 |-> items[i + k].recv] =
                                  [k \in 0..5 |->
                                      <<"self", "self", "self", "self", "self",
                                        "Self">>[k + 1]]
                            /\ \A k \in 0..5 : items[i + k].form = "call"
                  /\ \A n \in Range(BundleNames) :
                        Cardinality({ i \in DOMAIN items :
                                        gen(i) /\ items[i].name = n })
                          = Cardinality({ k \in DOMAIN applied[b] :
                                        applied[b][k].rule = "common_methods" })
    /\ call.accessor \in Range(BundleNames) =>
          /\ call.returned = call.delegated
          /\ call.passed = call.actuals
          /\ Len(call.passed) =
                (IF call.accessor \in {"__bytes__", "from_json"} THEN 1 ELSE 0)
          /\ call.callee =
                (CASE call.accessor = "__bytes__" -> "pybytes"
                   [] call.accessor = "__str__" -> "pystr"
                   [] call.accessor = "__repr__" -> "pyrepr"
                   [] call.accessor = "__reduce__" -> "pyreduce"
                   [] call.accessor = "to_json" -> "py_to_json"
                   [] call.accessor = "from_json" -> "py_from_json")

C6_Witness ==
    /\ phase = "run"
    /\ call.accessor = "to_json"
    /\ call.actuals = <<>>
    /\ call.passed = <<>>
    /\ call.callee = "py_to_json"
    /\ call.returned = "w"
    /\ Len(Head(unit[call.block]).items) = Len(input[call.block].items) + 6

---------------------------------------------------------------------------
(* C7: an invocation on a shape its rule does not support (an impl rule on *)
(* a non-impl item, enum_original_mapping on a non-enum item or with an    *)
(* argument that is not a single identifier) returns only a diagnostic,    *)
(* with no generated item or conversion; any other invocation returns the  *)
(* complete augmented output.  Nothing in between is ever returned.        *)
Supported(rule, attr, item) ==
    \/ rule \in ImplRules /\ item.kind = "impl"
    \/ rule = "enum_original_mapping" /\ item.kind = "enum" /\ Len(attr) = 1

CompleteOutput(rule, attr, item, out) ==
    IF rule \in ImplRules
    THEN /\ Len(out) = 1
         /\ out[1].kind = "impl"
         /\ Names(out[1].items) = Names(item.items) \o ExpectedNames(rule)
    ELSE /\ Len(out) = 3
         /\ out[1] = item
         /\ out[2].kind = "from" /\ out[2].src = attr[1] /\ out[2].dst = item.ident
         /\ out[3].kind = "from" /\ out[3].src = item.ident /\ out[3].dst = attr[1]
         /\ Len(out[2].arms) = Len(item.variants)
         /\ Len(out[3].arms) = Len(item.variants)

C7_AllOrNothing ==
    [][\A b \in DOMAIN unit :
         Expanded(b) =>
            LET r == Last(applied'[b])
                item == Head(unit[b])
                out == Returned(b)
            IN  /\ RestKept(b)
                /\ IF Supported(r.rule, r.attr, item)
                   THEN CompleteOutput(r.rule, r.attr, item, out)
                   ELSE /\ Len(out) = 1
                        /\ out[1].kind = "error"]_vars

C7_Witness ==
    \E b \in DOMAIN unit :
        /\ input[b].kind = "enum"
        /\ Len(applied[b]) = 2
        /\ applied[b][1] = [rule |-> "enum_original_mapping", attr |-> <<ExternName>>]
        /\ applied[b][2] = [rule |-> "enum_original_mapping",
                            attr |-> <<ExternName, ExternName>>]
        /\ Len(unit[b]) = 3
        /\ unit[b][1].kind = "error"
        /\ unit[b][2].kind = "from"

---------------------------------------------------------------------------
(* The enum pair of a built unit, as the properties see it.                *)

\* Variant names of the annotated enum.
Annotated == Variants(unit, extern, TypeName)

ExternValue(v) == [enum |-> ExternName, variant |-> v]

AnnotatedValue(v) == [enum |-> TypeName, variant |-> v]

---------------------------------------------------------------------------
(* C2: round-trip law.  For every variant name present in both enums,      *)
(* converting the external value to the annotated enum and back yields a   *)
(* value equal to the original.                                            *)
C2_RoundTrip ==
    \A k \in DOMAIN trail :
        (/\ IsValue(trail[k])
         /\ trail[k].enum = ExternName
         /\ trail[k].variant \in Annotated
         /\ k + 2 <= Len(trail))
        => /\ IsValue(trail[k + 1])
           /\ trail[k + 1].enum = TypeName
           /\ trail[k + 2] = trail[k]

C2_Witness ==
    /\ phase = "run"
    /\ input[1].kind = "enum"
    /\ extern = {"A", "B", "C"}
    /\ input[1].variants = <<"B", "A">>
    /\ trail = <<ExternValue("A"), AnnotatedValue("A"), ExternValue("A")>>

---------------------------------------------------------------------------
(* C3: the forward conversion of an external variant whose name is absent  *)
(* from the annotated enum fails at conversion time with a message naming  *)
(* that variant and returns no annotated value; generating the mapping for *)
(* such a pair succeeds.                                                   *)
C3_UnrecognizedVariantPanics ==
    /\ \A k \in DOMAIN trail :
          (/\ IsValue(trail[k])
           /\ trail[k].enum = ExternName
           /\ trail[k].variant \notin Annotated
           /\ k + 1 <= Len(trail))
          => /\ ~IsValue(trail[k + 1])
             /\ trail[k + 1] =
                   [panic |-> TRUE,
                    msg |-> <<"Unrecognized variant: {:?}", trail[k].variant>>]
             /\ k + 1 = Len(trail)
    /\ \A b \in DOMAIN unit :
          (/\ input[b].kind = "enum"
           /\ applied[b] # <<>>
           /\ \A k \in DOMAIN applied[b] :
                 /\ applied[b][k].rule = "enum_original_mapping"
                 /\ Len(applied[b][k].attr) = 1)
          => /\ \A it \in Range(unit[b]) : it.kind # "error"
             /\ unit[b][2].kind = "from"
             /\ unit[b][2].src = ExternName
             /\ unit[b][2].catchall

C3_Witness ==
    /\ phase = "run"
    /\ input[1].kind = "enum"
    /\ extern = {"A", "B", "C"}
    /\ input[1].variants = <<"A", "B">>
    /\ Len(trail) = 2
    /\ trail[1] = ExternValue("C")
    /\ trail[2] = [panic |-> TRUE, msg |-> <<"Unrecognized variant: {:?}", "C">>]

---------------------------------------------------------------------------
(* C4: the reverse conversion has exactly one arm per variant of the       *)
(* annotated enum and no catch-all; it returns the external variant of the *)
(* same name and never fails.  The forward conversion maps every shared    *)
(* variant to the annotated variant of the same name.                      *)
C4_SameNameMapping ==
    /\ \A b \in DOMAIN unit :
          (/\ input[b].kind = "enum"
           /\ applied[b] # <<>>
           /\ Last(applied[b]).rule = "enum_original_mapping"
           /\ Len(Last(applied[b]).attr) = 1)
          => LET rev == unit[b][3]
                 vs == input[b].variants
             IN  /\ rev.kind = "from"
                 /\ rev.src = TypeName
                 /\ rev.dst = ExternName
                 /\ ~rev.catchall
                 /\ Len(rev.arms) = Len(vs)
                 /\ \A i \in DOMAIN vs :
                       /\ rev.arms[i].pat = AnnotatedValue(vs[i])
                       /\ rev.arms[i].res = ExternValue(vs[i])
    /\ \A k \in DOMAIN trail :
          (IsValue(trail[k]) /\ k + 1 <= Len(trail)) =>
              /\ trail[k].enum = TypeName =>
                    trail[k + 1] = ExternValue(trail[k].variant)
              /\ (trail[k].enum = ExternName /\ trail[k].variant \in Annotated) =>
                    trail[k + 1] = AnnotatedValue(trail[k].variant)

C4_Witness ==
    /\ phase = "run"
    /\ input[1].kind = "enum"
    /\ input[1].variants = <<"A", "B">>
    /\ extern = {"A", "B"}
    /\ trail = <<AnnotatedValue("B"), ExternValue("B")>>

---------------------------------------------------------------------------
(* C9: invocations are independent.  However the invocations on the blocks *)
(* of a unit are ordered or interleaved, each block's output is what       *)
(* processing that block alone, with its own annotations and arguments,    *)
(* produces; no invocation changes what stands for another block.          *)
Dispatch(rule, attr, item) ==
    CASE rule = "pyhash" -> pyhash(attr, item)
      [] rule = "richcmp_full" -> richcmp_full(attr, item)
      [] rule = "richcmp_eq_only" -> richcmp_eq_only(attr, item)
      [] rule = "richcmp_signer" -> richcmp_signer(attr, item)
      [] rule = "common_methods" -> common_methods(attr, item)
      [] rule = "rpc_id_getter" -> rpc_id_getter(attr, item)
      [] rule = "enum_original_mapping" -> enum_original_mapping(attr, item)

RECURSIVE Alone(_, _)
Alone(stream, hist) ==
    IF hist = <<>> THEN stream
    ELSE Alone(Dispatch(Head(hist).rule, Head(hist).attr, <<Head(stream)>>)
                  \o Tail(stream),
               Tail(hist))

===========================================================================
